---- MODULE Spec2Model ----
(***************************************************************************)
(* State-machine model of the analysis helpers of the repository:          *)
(*   src/src/quantitative_analysis.py   class StockAnalysis                *)
(*   src/src/sentiment_analysis.py      class FinancialNewsEDA             *)
(*   src/scripts/preprocessing.py       load_data / align_dates / save_data*)
(*                                                                         *)
(* A run is one session of one of the three kinds.  DataFrames live in a   *)
(* heap of tables addressed by references, so that "the same table" and    *)
(* "a copy of the table" are different things.  A table is an index (the   *)
(* row labels) and a function from column names to columns: a dtype and the  *)
(* cells.  Column order is not modelled.  Every input table has a date and a close *)
(* column (spec section 6) and no two column names that differ in case     *)
(* only.                                                                   *)
(***************************************************************************)
EXTENDS Integers, Sequences, FiniteSets, TLC

VARIABLES session, pc, heap, fs, args, self, invoked, last, ghost

vars == <<session, pc, heap, fs, args, self, invoked, last, ghost>>

(* ------------------------------ bounds -------------------------------- *)

\* Largest number of rows of an input table.
MaxRows == 2

(* ------------------------------- cells -------------------------------- *)

None == [k |-> "None"]

\* NaN, NaT and None inside a column: everything pd.isna() answers True for.
NaN == [k |-> "nan"]

IntC(n) == [k |-> "int", a |-> n]

RECURSIVE Gcd(_, _)
Gcd(x, y) == IF y = 0 THEN x ELSE Gcd(y, x % y)

Abs(x) == IF x < 0 THEN -x ELSE x

\* A float64 value, kept as the exact fraction n/d in lowest terms, d > 0.
FloatC(n, d) ==
    LET g == Gcd(Abs(n), Abs(d))
        s == IF d < 0 THEN -1 ELSE 1
    IN [k |-> "float", a |-> (s * n) \div g, b |-> (s * d) \div g]

Inf(sign) == [k |-> "inf", a |-> sign]

\* A naive pandas Timestamp: day number and hour of the day.
Ts(day, hour) == [k |-> "ts", a |-> day, b |-> hour]

\* A timezone-aware Timestamp in UTC.
TsUtc(day, hour) == [k |-> "ts", a |-> day, b |-> hour, tz |-> "UTC"]

\* A datetime.date object.
DateC(day) == [k |-> "date", a |-> day]

\* A Python str, as its sequence of characters.
Str(chars) == [k |-> "str", w |-> chars]

\* The value of a talib / pynance routine past its warm-up, kept symbolic:
\* routine name and row.
Computed(name, i) == [k |-> "computed", f |-> name, a |-> i]

isna(c) == c.k = "nan"

IsNum(c) == c.k \in {"int", "float"}

Num(c) == IF c.k = "int" THEN c.a ELSE c.a
Den(c) == IF c.k = "int" THEN 1 ELSE c.b

\* Series / Series and Series / scalar in float64: x / 0 is +-inf, 0 / 0 is NaN.
TrueDiv(x, y) ==
    IF ~IsNum(x) \/ ~IsNum(y) THEN NaN
    ELSE IF Num(y) = 0
         THEN (IF Num(x) = 0 THEN NaN ELSE Inf(IF Num(x) > 0 THEN 1 ELSE -1))
         ELSE FloatC(Num(x) * Den(y), Den(x) * Num(y))

Sub(x, y) ==
    IF ~IsNum(x) \/ ~IsNum(y) THEN NaN
    ELSE FloatC(Num(x) * Den(y) - Num(y) * Den(x), Den(x) * Den(y))

Add(x, y) ==
    IF ~IsNum(x) \/ ~IsNum(y) THEN NaN
    ELSE FloatC(Num(x) * Den(y) + Num(y) * Den(x), Den(x) * Den(y))

(* ------------------------------- tables ------------------------------- *)

\* A column: its dtype (int64, float64, datetime64, object) and its cells.
Series(dtype, v) == [dtype |-> dtype, v |-> v]

Table(index, cols) == [index |-> index, cols |-> cols]

NRows(t) == Len(t.index)

Columns(t) == DOMAIN t.cols

RangeIndex(n) == [i \in 1..n |-> i - 1]

\* df[name] = column: adds the column or replaces the one of that name.
SetCol(t, name, col) ==
    Table(t.index,
          [c \in Columns(t) \cup {name} |-> IF c = name THEN col ELSE t.cols[c]])

\* str.lower() on the column names the inputs use.
LowerName(name) ==
    CASE name = "Date" -> "date"
      [] name = "Close" -> "close"
      [] name = "Stock Splits" -> "stock splits"
      [] name = "Volatility" -> "volatility"
      [] name = "RSI" -> "rsi"
      [] OTHER -> name

\* df.columns = df.columns.str.lower()
LowerColumns(t) ==
    Table(t.index,
          [c \in {LowerName(n) : n \in Columns(t)} |->
              t.cols[CHOOSE n \in Columns(t) : LowerName(n) = c]])

\* The order sort_values uses on a datetime column: NaT compares last.
DateLE(x, y) ==
    \/ isna(y)
    \/ /\ ~isna(x)
       /\ \/ x.a < y.a
          \/ x.a = y.a /\ x.b <= y.b

IsSortedBy(col) ==
    \A i \in 1..Len(col.v) - 1 : DateLE(col.v[i], col.v[i + 1])

Perms(n) == {p \in [1..n -> 1..n] : \A i, j \in 1..n : p[i] = p[j] => i = j}

Reorder(t, p) ==
    Table([i \in 1..NRows(t) |-> t.index[p[i]]],
          [c \in Columns(t) |->
              Series(t.cols[c].dtype, [i \in 1..NRows(t) |-> t.cols[c].v[p[i]]])])

\* df.sort_values(by): the default kind is quicksort, which is not stable, so
\* every arrangement that puts the keys in order is a possible outcome.
SortValues(t, by) ==
    {Reorder(t, p) : p \in {q \in Perms(NRows(t)) : IsSortedBy(Reorder(t, q).cols[by])}}

\* ResetIndex without the reset: the index keeps the order sort_values left.
KeepIndex(t) == t

\* df.reset_index(drop=True)
ResetIndex(t) == Table(RangeIndex(NRows(t)), t.cols)

(* -------------------------------- CSV --------------------------------- *)

\* A CSV file is a function from column names to columns of fields.  A field
\* is kept as its lexeme: what kind of text it is and what it denotes.
EmptyF == [k |-> "field", f |-> "empty"]
DateF(day) == [k |-> "field", f |-> "date", a |-> day]              \* YYYY-MM-DD
DateTimeF(day, hour) == [k |-> "field", f |-> "datetime", a |-> day, b |-> hour]
IntF(n) == [k |-> "field", f |-> "int", a |-> n]
FloatF(n, d) == [k |-> "field", f |-> "float", a |-> n, b |-> d]   \* repr of n/d
TextF(chars) == [k |-> "field", f |-> "text", w |-> chars]

Csv(n, cols) == [n |-> n, cols |-> cols]

\* Some of the strings read_csv takes for a missing value by default.
NaStrings == {<<"N", "A">>, <<"n", "a", "n">>}

IsNaField(x) == x.f = "empty" \/ (x.f = "text" /\ x.w \in NaStrings)

\* A str cell holding the text of a field.
StrOfField(x) == IF x.f = "text" THEN Str(x.w) ELSE [k |-> "str", lex |-> x]

FieldOfStr(c) == IF "w" \in DOMAIN c THEN (IF c.w = <<>> THEN EmptyF ELSE TextF(c.w)) ELSE c.lex

IsDateField(x) == x.f \in {"date", "datetime"}

\* read_csv on a column named in parse_dates: the fields are kept as text and
\* converted together; when one of them is no date the column stays text.
ParseDateColumn(col) ==
    IF \A i \in 1..Len(col) : IsNaField(col[i]) \/ IsDateField(col[i])
    THEN Series("datetime64",
                [i \in 1..Len(col) |->
                    IF IsNaField(col[i]) THEN NaN
                    ELSE IF col[i].f = "date" THEN Ts(col[i].a, 0)
                    ELSE Ts(col[i].a, col[i].b)])
    ELSE Series("object",
                [i \in 1..Len(col) |->
                    IF IsNaField(col[i]) THEN NaN ELSE StrOfField(col[i])])

\* read_csv's inference on any other column: int64 when every field is an
\* integer, float64 when every field is a number or missing, else object.
InferColumn(col) ==
    IF \A i \in 1..Len(col) : col[i].f = "int"
    THEN Series("int64", [i \in 1..Len(col) |-> IntC(col[i].a)])
    ELSE IF \A i \in 1..Len(col) : IsNaField(col[i]) \/ col[i].f \in {"int", "float"}
    THEN Series("float64",
                [i \in 1..Len(col) |->
                    IF IsNaField(col[i]) THEN NaN
                    ELSE IF col[i].f = "int" THEN FloatC(col[i].a, 1)
                    ELSE FloatC(col[i].a, col[i].b)])
    ELSE Series("object",
                [i \in 1..Len(col) |->
                    IF IsNaField(col[i]) THEN NaN ELSE StrOfField(col[i])])

\* pd.read_csv(path, parse_dates=[dateCol]) of a file that has the column.
ReadCsv(file, dateCol) ==
    Table(RangeIndex(file.n),
          [c \in DOMAIN file.cols |->
              IF c = dateCol THEN ParseDateColumn(file.cols[c])
              ELSE InferColumn(file.cols[c])])

\* to_csv writes a datetime64 column without the time of day when every
\* value of the column is at midnight.
AllMidnight(col) ==
    col.dtype = "datetime64" /\ \A i \in 1..Len(col.v) : col.v[i].k = "ts" => col.v[i].b = 0

FormatCell(c, dateOnly) ==
    CASE c.k = "nan" -> EmptyF
      [] c.k = "int" -> IntF(c.a)
      [] c.k = "float" -> FloatF(c.a, c.b)
      [] c.k = "inf" -> TextF(IF c.a > 0 THEN <<"i", "n", "f">> ELSE <<"-", "i", "n", "f">>)
      [] c.k = "ts" -> (IF dateOnly THEN DateF(c.a) ELSE DateTimeF(c.a, c.b))
      [] c.k = "date" -> DateF(c.a)
      [] c.k = "str" -> FieldOfStr(c)
      [] OTHER -> FloatF(c.a, 1)

\* ToCsv with index=True: the index is written as a first, unnamed column.
ToCsvWithIndex(t) ==
    Csv(NRows(t),
        [c \in Columns(t) \cup {"Unnamed: 0"} |->
            [i \in 1..NRows(t) |->
                IF c = "Unnamed: 0" THEN IntF(t.index[i])
                ELSE FormatCell(t.cols[c].v[i], AllMidnight(t.cols[c]))]])

\* df.to_csv(path, index=False): the columns, and no column for the index.
ToCsv(t) ==
    Csv(NRows(t),
        [c \in Columns(t) |->
            [i \in 1..NRows(t) |-> FormatCell(t.cols[c].v[i], AllMidnight(t.cols[c]))]])

(* ------------------------- state and inputs --------------------------- *)

\* References of the heap.  In a stock or news session CallerRef is the
\* DataFrame the caller passes to the constructor and OwnRef the table the
\* object keeps; in a preprocessing session they are news_df and stock_df.
CallerRef == 1
OwnRef == 2
Refs == {CallerRef, OwnRef}

Paths == {"news.csv", "stock.csv", "news_out.csv", "stock_out.csv"}

EmptyHeap == [r \in Refs |-> None]
EmptyFs == [p \in Paths |-> None]

\* What the last call did: the operation, the exception it raised ("" when it
\* returned), what it showed, and the references it returned.
Call(op, exc, out, ret) == [op |-> op, exc |-> exc, out |-> out, ret |-> ret]
NoCall == Call("", "", "", <<>>)

Tickers == {<<"A", "A", "P", "L">>}

\* A row of a price table: its date, its close and its split.  10 is a whole
\* number given as one; 20.5 came with a 2-for-1 split.
StockRows ==
    {[date |-> Ts(2, 0), close |-> IntC(10), split |-> 0],
     [date |-> Ts(1, 0), close |-> FloatC(41, 2), split |-> 2],
     [date |-> NaN, close |-> IntC(10), split |-> 2]}

\* A close column is int64 when every price is a whole number given as one.
CloseColumn(rows) ==
    IF \A i \in 1..Len(rows) : rows[i].close.k = "int"
    THEN Series("int64", [i \in 1..Len(rows) |-> rows[i].close])
    ELSE Series("float64",
                [i \in 1..Len(rows) |-> FloatC(Num(rows[i].close), Den(rows[i].close))])

SplitColumn(rows) == Series("float64", [i \in 1..Len(rows) |-> FloatC(rows[i].split, 1)])

\* The column names of an input table: as Yahoo Finance writes them, or lower case.
NameOf(style, name) ==
    IF style = "lower" THEN name
    ELSE CASE name = "date" -> "Date"
           [] name = "close" -> "Close"
           [] name = "stock splits" -> "Stock Splits"
           [] name = "volatility" -> "Volatility"
           [] OTHER -> name

\* How the constructor is called (with df, with file_path, with both) and what
\* the table looks like: the style of its column names, the extra columns it
\* already carries, whether it has a split column.
Shape(mode, style, extras, splits) ==
    [mode |-> mode, style |-> style, extras |-> extras, splits |-> splits]

Shapes ==
    {Shape("df", "lower", {}, TRUE), Shape("df", "title", {"volatility"}, FALSE),
     Shape("df", "title", {"RSI"}, TRUE), Shape("file", "title", {}, TRUE),
     Shape("file", "lower", {}, FALSE), Shape("both", "title", {}, FALSE)}

StockInput(rows, sh) ==
    LET n == Len(rows)
        names == {"date", "close"} \cup (IF sh.splits THEN {"stock splits"} ELSE {})
                    \cup sh.extras
    IN Table(RangeIndex(n),
             [c \in {NameOf(sh.style, x) : x \in names} |->
                CASE c = NameOf(sh.style, "date") ->
                        Series("datetime64", [i \in 1..n |-> rows[i].date])
                  [] c = NameOf(sh.style, "close") -> CloseColumn(rows)
                  [] c = NameOf(sh.style, "stock splits") -> SplitColumn(rows)
                  [] OTHER -> Series("float64", [i \in 1..n |-> FloatC(1, 1)])])

StockFile == "stock.csv"

InitStock ==
    /\ session = "stock"
    /\ pc = "start"
    /\ self = None
    /\ invoked = {}
    /\ last = NoCall
    /\ \E ticker \in Tickers :
          \/ /\ args = [ticker |-> ticker, df |-> 0, file_path |-> ""]
             /\ heap = EmptyHeap
             /\ fs = EmptyFs
          \/ \E n \in 0..MaxRows, sh \in Shapes :
             \E rows \in [1..n -> StockRows] :
                LET t == StockInput(rows, sh)
                IN /\ args = [ticker |-> ticker,
                              df |-> IF sh.mode = "file" THEN 0 ELSE CallerRef,
                              file_path |-> IF sh.mode = "df" THEN "" ELSE StockFile]
                   /\ heap = [EmptyHeap EXCEPT ![CallerRef] = IF sh.mode = "file" THEN None ELSE t]
                   /\ fs = [EmptyFs EXCEPT ![StockFile] = IF sh.mode = "df" THEN None ELSE ToCsv(t)]
    /\ ghost = [orig |-> heap, reads |-> {}, saved |-> EmptyFs]

(* --------------------------- StockAnalysis ---------------------------- *)

\* CopyRef without the copy: the object keeps the caller's table.
SameRef(ref) == ref

\* df.copy() is a new object: the reference the object's table lives at.
CopyRef(ref) == OwnRef

\* DfGiven with the two branches of the constructor in the other order.
DfGivenAlone == args.df # 0 /\ args.file_path = ""

\* if df is not None
DfGiven == args.df # 0

\* df[name] = scalar: the scalar on every row.
ConstCol(n, dtype, c) == Series(dtype, [i \in 1..n |-> c])

\* Lines 23-27 of the constructor on the table it starts from.
NormaliseStock(t, ticker) ==
    LET lowered == LowerColumns(t)
        tagged == SetCol(lowered, "ticker", ConstCol(NRows(t), "object", Str(ticker)))
    IN {ResetIndex(sorted) : sorted \in SortValues(tagged, "date")}

StockAnalysis_init ==
    /\ session = "stock"
    /\ pc = "start"
    /\ IF DfGiven
       THEN \E t \in NormaliseStock(heap[args.df], args.ticker) :
               /\ heap' = [heap EXCEPT ![CopyRef(args.df)] = t]
               /\ self' = [ticker |-> args.ticker, df |-> CopyRef(args.df)]
               /\ pc' = "ready"
               /\ last' = Call("__init__", "", "df", <<>>)
               /\ ghost' = ghost
       ELSE IF args.file_path # ""
       THEN IF "Date" \in DOMAIN fs[args.file_path].cols
            THEN \E t \in NormaliseStock(ReadCsv(fs[args.file_path], "Date"), args.ticker) :
                    /\ heap' = [heap EXCEPT ![OwnRef] = t]
                    /\ self' = [ticker |-> args.ticker, df |-> OwnRef]
                    /\ pc' = "ready"
                    /\ last' = Call("__init__", "", "file", <<>>)
                    /\ ghost' = [ghost EXCEPT !.reads = @ \cup {args.file_path}]
            ELSE /\ pc' = "failed"
                 /\ last' = Call("__init__", "ValueError", "", <<>>)
                 /\ ghost' = [ghost EXCEPT !.reads = @ \cup {args.file_path}]
                 /\ UNCHANGED <<heap, self>>
       ELSE /\ pc' = "failed"
            /\ last' = Call("__init__", "ValueError", "", <<>>)
            /\ UNCHANGED <<heap, self, ghost>>
    /\ UNCHANGED <<session, fs, args, invoked>>

StockReady == session = "stock" /\ pc = "ready"

SelfDf == heap[self.df]

RECURSIVE SumCells(_, _, _)
SumCells(col, lo, hi) ==
    IF lo > hi THEN FloatC(0, 1) ELSE Add(col[lo], SumCells(col, lo + 1, hi))

\* talib.SMA: NaN until timeperiod values are there, then their mean.
SMA(col, timeperiod) ==
    Series("float64",
           [i \in 1..Len(col.v) |->
               IF i < timeperiod THEN NaN
               ELSE TrueDiv(SumCells(col.v, i - timeperiod + 1, i), IntC(timeperiod))])

\* A talib routine whose first `lookback` values are NaN.
WarmUp(col, lookback, name) ==
    Series("float64",
           [i \in 1..Len(col.v) |-> IF i <= lookback THEN NaN ELSE Computed(name, i)])

MA20Period == 20
MA50Period == 50
RSIPeriod == 14
\* talib.MACD's defaults 12, 26, 9: the first 26 + 9 - 2 values are NaN.
MACDLookback == 33

\* The columns add_technical_indicators assigns, in its order.
IndicatorColumns(t) ==
    LET close == t.cols["close"]
        t1 == SetCol(t, "MA_20", SMA(close, MA20Period))
        t2 == SetCol(t1, "MA_50", SMA(close, MA50Period))
        t3 == SetCol(t2, "RSI", WarmUp(close, RSIPeriod, "RSI"))
        t4 == SetCol(t3, "MACD", WarmUp(close, MACDLookback, "MACD"))
        t5 == SetCol(t4, "MACD_signal", WarmUp(close, MACDLookback, "MACD_signal"))
    IN SetCol(t5, "MACD_hist", WarmUp(close, MACDLookback, "MACD_hist"))

\* Series.pct_change(): NaN on the first row, then x[i] / x[i-1] - 1.
PctChange(col) ==
    Series("float64",
           [i \in 1..Len(col.v) |->
               IF i = 1 THEN NaN ELSE Sub(TrueDiv(col.v[i], col.v[i - 1]), IntC(1))])

\* WithIndicators computing the daily return as well.
WithIndicatorsAndReturn(t) ==
    SetCol(IndicatorColumns(t), "daily_return", PctChange(t.cols["close"]))

WithIndicators(t) == IndicatorColumns(t)

\* talib accepts float64 input only and raises on an int64 column before any
\* column is assigned.
add_technical_indicators ==
    /\ StockReady
    /\ IF SelfDf.cols["close"].dtype # "float64"
       THEN /\ last' = Call("add_technical_indicators", "Exception", "", <<>>)
            /\ heap' = heap
       ELSE /\ last' = Call("add_technical_indicators", "", "", <<>>)
            /\ heap' = [heap EXCEPT ![self.df] = WithIndicators(SelfDf)]
    /\ invoked' = invoked \cup {"add_technical_indicators"}
    /\ UNCHANGED <<session, pc, fs, args, self, ghost>>

compute_daily_returns ==
    /\ StockReady
    /\ heap' = [heap EXCEPT ![self.df] = SetCol(SelfDf, "daily_return", PctChange(SelfDf.cols["close"]))]
    /\ last' = Call("compute_daily_returns", "", "", <<>>)
    /\ invoked' = invoked \cup {"compute_daily_returns"}
    /\ UNCHANGED <<session, pc, fs, args, self, ghost>>

\* ReplaceZero replacing nothing.
ReplaceNothing(col) == col

\* Series.replace(0, 1)
ReplaceZero(col) ==
    Series(col.dtype,
           [i \in 1..Len(col.v) |->
               IF IsNum(col.v[i]) /\ Num(col.v[i]) = 0 THEN FloatC(1, 1) ELSE col.v[i]])

AdjustedClose(t) ==
    IF "stock splits" \in Columns(t)
    THEN LET splits == ReplaceZero(t.cols["stock splits"])
         IN Series("float64",
                   [i \in 1..NRows(t) |-> TrueDiv(t.cols["close"].v[i], splits.v[i])])
    ELSE t.cols["close"]

adjust_for_splits ==
    /\ StockReady
    /\ heap' = [heap EXCEPT ![self.df] = SetCol(SelfDf, "adjusted_close", AdjustedClose(SelfDf))]
    /\ last' = Call("adjust_for_splits", "",
                    IF "stock splits" \in Columns(SelfDf) THEN "adjusted" ELSE "no splits", <<>>)
    /\ invoked' = invoked \cup {"adjust_for_splits"}
    /\ UNCHANGED <<session, pc, fs, args, self, ghost>>

\* pynance is not part of the repository: the import and the volatility call
\* raise before any column is assigned, the momentum call raises after the
\* first one is, or both return a column of values.
PynanceOutcomes == {"volatility raises", "momentum raises", "returns"}

calculate_pynance_metrics ==
    /\ StockReady
    /\ \E outcome \in PynanceOutcomes :
          LET n == NRows(SelfDf)
              t1 == SetCol(SelfDf, "volatility",
                           Series("float64", [i \in 1..n |-> Computed("volatility", i)]))
              t2 == SetCol(t1, "momentum",
                           Series("float64", [i \in 1..n |-> Computed("momentum", i)]))
          IN /\ heap' = [heap EXCEPT ![self.df] =
                            CASE outcome = "returns" -> t2
                              [] outcome = "momentum raises" -> t1
                              [] OTHER -> SelfDf]
             /\ last' = Call("calculate_pynance_metrics",
                             IF outcome = "returns" THEN "" ELSE outcome, "", <<>>)
    /\ invoked' = invoked \cup {"calculate_pynance_metrics"}
    /\ UNCHANGED <<session, pc, fs, args, self, ghost>>

\* A plotting method that subscripts self.df with `needs`: a chart, or the
\* KeyError of the first missing column; the table is only read.
Plot(op, needs) ==
    /\ StockReady
    /\ last' = IF needs \subseteq Columns(SelfDf)
               THEN Call(op, "", "chart", <<>>)
               ELSE Call(op, "KeyError", "", <<>>)
    /\ UNCHANGED <<session, pc, heap, fs, args, self, invoked, ghost>>

\* GuardedPlot without the look: it subscripts the column like Plot.
UnguardedPlot(op, column) == Plot(op, {"date", column})

\* A plotting method that looks for its column first and prints when it is
\* not there.
GuardedPlot(op, column) ==
    /\ StockReady
    /\ last' = IF column \in Columns(SelfDf)
               THEN Call(op, "", "chart", <<>>)
               ELSE Call(op, "", "message", <<>>)
    /\ UNCHANGED <<session, pc, heap, fs, args, self, invoked, ghost>>

plot_price_and_ma == Plot("plot_price_and_ma", {"date", "close", "MA_20", "MA_50"})

plot_macd == Plot("plot_macd", {"date", "MACD", "MACD_signal"})

plot_rsi == Plot("plot_rsi", {"date", "RSI"})

plot_volatility == GuardedPlot("plot_volatility", "volatility")

plot_momentum == GuardedPlot("plot_momentum", "momentum")

\* No input of the model has a 'dividend' column (Yahoo's is 'Dividends').
plot_dividends == GuardedPlot("plot_dividends", "dividend")

get_data ==
    /\ StockReady
    /\ last' = Call("get_data", "", "", <<self.df>>)
    /\ UNCHANGED <<session, pc, heap, fs, args, self, invoked, ghost>>

NextStock ==
    \/ StockAnalysis_init
    \/ add_technical_indicators
    \/ compute_daily_returns
    \/ adjust_for_splits
    \/ calculate_pynance_metrics
    \/ plot_price_and_ma
    \/ plot_macd
    \/ plot_rsi
    \/ plot_volatility
    \/ plot_momentum
    \/ plot_dividends
    \/ get_data

(* -------------------------- text and numbers ------------------------- *)

LowerLetters ==
    <<"a", "b", "c", "d", "e", "f", "g", "h", "i", "j", "k", "l", "m",
      "n", "o", "p", "q", "r", "s", "t", "u", "v", "w", "x", "y", "z">>

UpperLetters ==
    <<"A", "B", "C", "D", "E", "F", "G", "H", "I", "J", "K", "L", "M",
      "N", "O", "P", "Q", "R", "S", "T", "U", "V", "W", "X", "Y", "Z">>

IsUpper(ch) == \E i \in DOMAIN UpperLetters : UpperLetters[i] = ch

IsLetter(ch) == IsUpper(ch) \/ \E i \in DOMAIN LowerLetters : LowerLetters[i] = ch

\* str.lower()
ToLower(chars) ==
    [i \in 1..Len(chars) |->
        IF IsUpper(chars[i])
        THEN LowerLetters[CHOOSE j \in DOMAIN UpperLetters : UpperLetters[j] = chars[i]]
        ELSE chars[i]]

\* The maximal runs of letters (or, with `letters` false, of characters that
\* are no space), in order.
RECURSIVE Runs(_, _, _, _)
Runs(chars, k, cur, letters) ==
    IF k > Len(chars) THEN (IF cur = <<>> THEN <<>> ELSE <<cur>>)
    ELSE IF (IF letters THEN IsLetter(chars[k]) ELSE chars[k] # " ")
    THEN Runs(chars, k + 1, Append(cur, chars[k]), letters)
    ELSE (IF cur = <<>> THEN <<>> ELSE <<cur>>) \o Runs(chars, k + 1, <<>>, letters)

\* The characters of a str cell that holds free text.
CharsOf(c) == IF "w" \in DOMAIN c THEN c.w ELSE <<>>

Mul(x, y) == FloatC(Num(x) * Num(y), Den(x) * Den(y))

LessEq(x, y) == Num(x) * Den(y) <= Num(y) * Den(x)

\* The dtype pandas gives a column of Python values, and the values in it.
SeriesOf(cells) ==
    IF cells # <<>> /\ \A i \in 1..Len(cells) : cells[i].k = "int"
    THEN Series("int64", cells)
    ELSE IF \A i \in 1..Len(cells) : cells[i].k \in {"int", "float", "nan"}
    THEN Series("float64",
                [i \in 1..Len(cells) |->
                    IF cells[i].k = "int" THEN FloatC(cells[i].a, 1) ELSE cells[i]])
    ELSE Series("object", cells)

(* ----------------------------- TextBlob ------------------------------- *)

\* TextBlob's default analyzer scores a text from a lexicon of words, each
\* with a polarity in [-1, 1] and an intensity; four entries of it, and a
\* negation.
Lexicon ==
    {[w |-> <<"g", "o", "o", "d">>, p |-> FloatC(7, 10), i |-> FloatC(1, 1), modifier |-> FALSE],
     [w |-> <<"b", "a", "d">>, p |-> FloatC(-7, 10), i |-> FloatC(1, 1), modifier |-> FALSE],
     [w |-> <<"b", "e", "s", "t">>, p |-> FloatC(1, 1), i |-> FloatC(1, 1), modifier |-> FALSE],
     [w |-> <<"v", "e", "r", "y">>, p |-> FloatC(1, 5), i |-> FloatC(13, 10), modifier |-> TRUE]}

Negations == {<<"n", "o", "t">>, <<"n", "o">>}

InLexicon(w) == \E e \in Lexicon : e.w = w

Entry(w) == CHOOSE e \in Lexicon : e.w = w

Clamp(x) ==
    IF LessEq(x, FloatC(-1, 1)) THEN FloatC(-1, 1)
    ELSE IF LessEq(FloatC(1, 1), x) THEN FloatC(1, 1)
    ELSE x

\* The assessments of a list of words: a known word opens an assessment, or,
\* after a modifier ("very"), scales the one the modifier opened; a negation
\* before it inverts the intensity and marks the assessment negated.
RECURSIVE Assessments(_, _, _, _, _)
Assessments(words, k, a, m, n) ==
    IF k > Len(words) THEN a
    ELSE LET w == words[k]
         IN IF InLexicon(w)
            THEN LET e == Entry(w)
                     a1 == IF ~m
                           THEN Append(a, [p |-> e.p, i |-> e.i, n |-> 1])
                           ELSE [a EXCEPT ![Len(a)] =
                                    [p |-> Clamp(Mul(e.p, a[Len(a)].i)), i |-> e.i, n |-> @.n]]
                     a2 == IF n
                           THEN [a1 EXCEPT ![Len(a1)] =
                                    [p |-> @.p, i |-> TrueDiv(FloatC(1, 1), @.i), n |-> -1]]
                           ELSE a1
                 IN Assessments(words, k + 1, a2, e.modifier, FALSE)
            ELSE IF w \in Negations THEN Assessments(words, k + 1, a, m, TRUE)
            ELSE IF n /\ Len(w) > 1 THEN Assessments(words, k + 1, a, m, FALSE)
            ELSE Assessments(words, k + 1, a, m, n)

RECURSIVE SumPolarity(_, _)
SumPolarity(a, k) ==
    IF k > Len(a) THEN FloatC(0, 1)
    ELSE Add(IF a[k].n < 0 THEN Mul(a[k].p, FloatC(-1, 2)) ELSE a[k].p, SumPolarity(a, k + 1))

\* TextBlob(text).sentiment.polarity: the mean of the assessments, 0.0 when
\* there is none.
Polarity(chars) ==
    LET a == Assessments(Runs(ToLower(chars), 1, <<>>, FALSE), 1, <<>>, FALSE, FALSE)
    IN IF a = <<>> THEN FloatC(0, 1) ELSE TrueDiv(SumPolarity(a, 1), IntC(Len(a)))

(* ------------------------- FinancialNewsEDA --------------------------- *)

\* What a function applied to a cell gives when it raises.
Raises(exc) == [k |-> "raises", exc |-> exc]

AnyRaises(cells) == \E i \in 1..Len(cells) : cells[i].k = "raises"

FirstRaise(cells) ==
    cells[CHOOSE i \in 1..Len(cells) :
            cells[i].k = "raises" /\ \A j \in 1..i - 1 : cells[j].k # "raises"].exc

\* A date-time text with a UTC offset, as the news feed writes it.
DateTimeTzF(day, hour, offset) ==
    [k |-> "field", f |-> "datetimetz", a |-> day, b |-> hour, z |-> offset]

HoursPerDay == 24

\* A row of a news table.
NewsRows ==
    {[headline |-> Str(<<"N", "o", "t", " ", "b", "a", "d">>),
      publisher |-> Str(<<"a", "@", "b">>),
      date |-> StrOfField(DateTimeTzF(1, 22, -4))],
     [headline |-> Str(<<"v", "e", "r", "y", " ", "b", "e", "s", "t">>),
      publisher |-> Str(<<"B", "o">>),
      date |-> StrOfField(DateF(1))],
     [headline |-> NaN,
      publisher |-> NaN,
      date |-> Str(<<"x">>)],
     [headline |-> IntC(5),
      publisher |-> Str(<<"a", "@", "b">>),
      date |-> NaN]}

NewsInput(rows) ==
    LET n == Len(rows)
    IN Table(RangeIndex(n),
             [c \in {"headline", "publisher", "date"} |->
                CASE c = "headline" -> SeriesOf([i \in 1..n |-> rows[i].headline])
                  [] c = "publisher" -> SeriesOf([i \in 1..n |-> rows[i].publisher])
                  [] OTHER -> SeriesOf([i \in 1..n |-> rows[i].date])])

InitNews ==
    /\ session = "news"
    /\ pc = "start"
    /\ self = None
    /\ invoked = {}
    /\ last = NoCall
    /\ fs = EmptyFs
    /\ \E n \in 1..MaxRows :
       \E rows \in [1..n -> NewsRows] :
          /\ heap = [EmptyHeap EXCEPT ![CallerRef] = NewsInput(rows)]
          /\ args = [news_data |-> CallerRef]
    /\ ghost = [orig |-> heap, reads |-> {}, saved |-> EmptyFs]

FinancialNewsEDA_init ==
    /\ session = "news"
    /\ pc = "start"
    /\ heap' = [heap EXCEPT ![CopyRef(args.news_data)] = heap[args.news_data]]
    /\ self' = [news_data |-> CopyRef(args.news_data)]
    /\ pc' = "ready"
    /\ last' = Call("__init__", "", "", <<>>)
    /\ UNCHANGED <<session, fs, args, invoked, ghost>>

NewsReady == session = "news" /\ pc = "ready"

NewsData == heap[self.news_data]

\* A method of the news object: the table it leaves, what it raised and what
\* it showed.
NewsCall(op, t, exc, out, ret) ==
    /\ heap' = [heap EXCEPT ![self.news_data] = t]
    /\ last' = Call(op, exc, out, ret)
    /\ UNCHANGED <<session, pc, fs, args, self, invoked, ghost>>

\* The UTC instant of a cell under pd.to_datetime(errors='coerce', utc=True).
\* `format` is the one format every text must have, or "mixed".
ToDatetimeUtc(c, format) ==
    IF c.k = "ts" THEN TsUtc(c.a, c.b)
    ELSE IF c.k = "str" /\ "lex" \in DOMAIN c /\ format \in {"mixed", c.lex.f}
    THEN CASE c.lex.f = "date" -> TsUtc(c.lex.a, 0)
           [] c.lex.f = "datetime" -> TsUtc(c.lex.a, c.lex.b)
           [] c.lex.f = "datetimetz" ->
                LET hours == c.lex.a * HoursPerDay + c.lex.b - c.lex.z
                IN TsUtc(hours \div HoursPerDay, hours % HoursPerDay)
           [] OTHER -> NaN
    ELSE NaN

\* pandas 2 takes the format of the first text that is there and coerces a
\* text in another format to NaT; pandas 1 parses every text on its own.
DateFormats(col) ==
    LET texts == {i \in 1..Len(col.v) : col.v[i].k = "str"}
    IN {"mixed"} \cup
       (IF texts = {} THEN {}
        ELSE LET first == col.v[CHOOSE i \in texts : \A j \in texts : i <= j]
             IN IF "lex" \in DOMAIN first THEN {first.lex.f} ELSE {})

\* DtDate keeping the instants: the column turns object and nothing else.
DtKeep(col) == Series("object", col.v)

\* Series.dt.date
DtDate(col) ==
    Series("object",
           [i \in 1..Len(col.v) |-> IF col.v[i].k = "ts" THEN DateC(col.v[i].a) ELSE NaN])

convert_dates ==
    /\ NewsReady
    /\ \E format \in DateFormats(NewsData.cols["date"]) :
          LET old == NewsData.cols["date"]
              date == Series("datetime64",
                             [i \in 1..Len(old.v) |-> ToDatetimeUtc(old.v[i], format)])
              t1 == SetCol(NewsData, "date", date)
          IN NewsCall("convert_dates", SetCol(t1, "date_only", DtDate(date)), "", "", <<>>)

\* len(x) of a headline: a str has a length, a float or an int has none.
HeadlineLength(c) == IF c.k = "str" THEN IntC(Len(CharsOf(c))) ELSE Raises("TypeError")

headline_length_stats ==
    /\ NewsReady
    /\ LET lengths == [i \in 1..NRows(NewsData) |-> HeadlineLength(NewsData.cols["headline"].v[i])]
       IN IF AnyRaises(lengths)
          THEN NewsCall("headline_length_stats", NewsData, FirstRaise(lengths), "", <<>>)
          ELSE NewsCall("headline_length_stats",
                        SetCol(NewsData, "headline_length", SeriesOf(lengths)), "", "chart", <<>>)

\* x.split('@')[-1]: what follows the last '@'.
RECURSIVE AfterLastAt(_)
AfterLastAt(chars) ==
    IF \E i \in 1..Len(chars) : chars[i] = "@"
    THEN AfterLastAt(SubSeq(chars, 1 + (CHOOSE i \in 1..Len(chars) : chars[i] = "@"), Len(chars)))
    ELSE chars

PublisherDomain(c) ==
    IF c.k = "str" /\ \E i \in 1..Len(CharsOf(c)) : CharsOf(c)[i] = "@"
    THEN Str(AfterLastAt(CharsOf(c)))
    ELSE Str(<<"N", "o", " ", "E", "m", "a", "i", "l">>)

analyze_publisher_domains ==
    /\ NewsReady
    /\ LET col == NewsData.cols["publisher"]
       IN NewsCall("analyze_publisher_domains",
                   SetCol(NewsData, "publisher_domain",
                          Series("object", [i \in 1..Len(col.v) |-> PublisherDomain(col.v[i])])),
                   "", "chart", <<>>)

\* Series.dt.hour: int32, or float64 with NaN where the instant is NaT.
DtHour(col) ==
    SeriesOf([i \in 1..Len(col.v) |-> IF col.v[i].k = "ts" THEN IntC(col.v[i].b) ELSE NaN])

plot_publication_hour ==
    /\ NewsReady
    /\ IF NewsData.cols["date"].dtype = "datetime64"
       THEN NewsCall("plot_publication_hour",
                     SetCol(NewsData, "hour", DtHour(NewsData.cols["date"])), "", "chart", <<>>)
       ELSE NewsCall("plot_publication_hour", NewsData, "AttributeError", "", <<>>)

\* .str.lower().str.replace(r'[^a-zA-Z]', ' ', regex=True): a cell that is no
\* str becomes NaN.
CleanHeadline(c) ==
    IF c.k = "str"
    THEN LET low == ToLower(CharsOf(c))
         IN Str([i \in 1..Len(low) |-> IF IsLetter(low[i]) THEN low[i] ELSE " "])
    ELSE NaN

\* preprocess_text assigning the cleaned text to 'headline' itself.
preprocess_text_in_place ==
    /\ NewsReady
    /\ LET col == NewsData.cols["headline"]
       IN IF col.dtype = "object"
          THEN NewsCall("preprocess_text",
                        SetCol(NewsData, "headline",
                               Series("object", [i \in 1..Len(col.v) |-> CleanHeadline(col.v[i])])),
                        "", "", <<self.news_data>>)
          ELSE NewsCall("preprocess_text", NewsData, "AttributeError", "", <<>>)

\* The .str accessor is there on an object column only.
preprocess_text ==
    /\ NewsReady
    /\ LET col == NewsData.cols["headline"]
       IN IF col.dtype = "object"
          THEN NewsCall("preprocess_text",
                        SetCol(NewsData, "clean_headline",
                               Series("object", [i \in 1..Len(col.v) |-> CleanHeadline(col.v[i])])),
                        "", "", <<self.news_data>>)
          ELSE NewsCall("preprocess_text", NewsData, "AttributeError", "", <<>>)

\* sklearn's English stop words, as far as the headlines use them.
StopWords == {<<"n", "o", "t">>, <<"v", "e", "r", "y">>, <<"n", "o">>}

MinDf == 2
MaxDfNum == 9
MaxDfDen == 10

\* CountVectorizer(stop_words='english', max_df=0.9, min_df=2): the words of
\* two letters or more that are no stop word.
Terms(c) ==
    LET runs == Runs(CharsOf(c), 1, <<>>, TRUE)
    IN {runs[i] : i \in {j \in 1..Len(runs) : Len(runs[j]) >= 2 /\ runs[j] \notin StopWords}}

\* The vocabulary: the terms in at least min_df documents and in at most
\* max_df of them.
Vocabulary(col) ==
    LET docs == 1..Len(col.v)
        df(term) == Cardinality({i \in docs : term \in Terms(col.v[i])})
    IN {term \in UNION {Terms(col.v[i]) : i \in docs} :
            /\ df(term) >= MinDf
            /\ df(term) * MaxDfDen <= MaxDfNum * Len(col.v)}

\* fit_transform raises on a document that is NaN, on max_df below min_df,
\* and when no term is left.
LdaError(col) ==
    IF \E i \in 1..Len(col.v) : col.v[i].k # "str" THEN "ValueError"
    ELSE IF MaxDfNum * Len(col.v) < MinDf * MaxDfDen THEN "ValueError"
    ELSE IF Vocabulary(col) = {} THEN "ValueError"
    ELSE ""

perform_lda ==
    /\ NewsReady
    /\ IF "clean_headline" \notin Columns(NewsData)
       THEN NewsCall("perform_lda", NewsData, "KeyError", "", <<>>)
       ELSE LET col == NewsData.cols["clean_headline"]
            IN IF LdaError(col) # ""
               THEN NewsCall("perform_lda", NewsData, LdaError(col), "", <<>>)
               ELSE NewsCall("perform_lda",
                             SetCol(NewsData, "dominant_topic",
                                    Series("int64",
                                           [i \in 1..Len(col.v) |-> Computed("dominant_topic", i)])),
                             "", "topics", <<self.news_data>>)

\* get_sentiment without the pd.isna test.
get_sentiment_unchecked(text) ==
    IF text.k = "str" THEN Polarity(CharsOf(text)) ELSE Raises("TypeError")

\* TextBlob takes a str and raises TypeError on anything else.
get_sentiment(text) ==
    IF isna(text) THEN IntC(0)
    ELSE IF text.k = "str" THEN Polarity(CharsOf(text))
    ELSE Raises("TypeError")

sentiment_analysis ==
    /\ NewsReady
    /\ LET col == NewsData.cols["headline"]
           scores == [i \in 1..Len(col.v) |-> get_sentiment(col.v[i])]
       IN IF AnyRaises(scores)
          THEN NewsCall("sentiment_analysis", NewsData, FirstRaise(scores), "", <<>>)
          ELSE NewsCall("sentiment_analysis", SetCol(NewsData, "sentiment", SeriesOf(scores)),
                        "", "sample", <<self.news_data>>)

NextNews ==
    \/ FinancialNewsEDA_init
    \/ convert_dates
    \/ headline_length_stats
    \/ analyze_publisher_domains
    \/ plot_publication_hour
    \/ preprocess_text
    \/ perform_lda
    \/ sentiment_analysis

(* --------------------------- preprocessing ---------------------------- *)

NewsRef == CallerRef
StockRef == OwnRef

\* A line of a CSV file: its date field and its other field.
CsvRows ==
    {[date |-> DateTimeF(1, 0), x |-> IntF(3)],
     [date |-> DateTimeF(2, 10), x |-> FloatF(3, 2)],
     [date |-> EmptyF, x |-> TextF(<<"N", "A">>)],
     [date |-> TextF(<<"x">>), x |-> TextF(<<"h", "i">>)]}

CsvInput(rows, other) ==
    Csv(Len(rows),
        [c \in {"date", other} |->
            [i \in 1..Len(rows) |-> IF c = "date" THEN rows[i].date ELSE rows[i].x]])

\* The calls of load_data: on the two input files, or on the two files
\* save_data writes.
LoadCalls == {<<"news.csv", "stock.csv">>, <<"news_out.csv", "stock_out.csv">>}

\* The file save_data is called with for each table.
OutPath(ref) == IF ref = NewsRef THEN "news_out.csv" ELSE "stock_out.csv"

\* The stock file of a preprocessing session has one line; the news file has
\* up to MaxRows.
InitPrep ==
    /\ session = "prep"
    /\ pc = "start"
    /\ self = None
    /\ invoked = {}
    /\ last = NoCall
    /\ heap = EmptyHeap
    /\ args = [news_path |-> "", stock_path |-> ""]
    /\ \E n \in 1..MaxRows :
       \E rows \in [1..n -> CsvRows], quote \in CsvRows :
          fs = [EmptyFs EXCEPT !["news.csv"] = CsvInput(rows, "headline"),
                               !["stock.csv"] = CsvInput(<<quote>>, "close")]
    /\ ghost = [orig |-> heap, reads |-> {}, saved |-> EmptyFs]

\* load_data binds news_df and stock_df to two new tables when both files are
\* read, and raises out of the first read_csv that finds no file.
load_data ==
    /\ session = "prep"
    /\ \E paths \in LoadCalls :
       LET news_path == paths[1]
           stock_path == paths[2]
       IN /\ args' = [news_path |-> news_path, stock_path |-> stock_path]
          /\ IF fs[news_path] = None \/ fs[stock_path] = None
             THEN /\ last' = Call("load_data", "FileNotFoundError", "", <<>>)
                  /\ UNCHANGED <<pc, heap, ghost>>
             ELSE /\ heap' = [heap EXCEPT ![NewsRef] = ReadCsv(fs[news_path], "date"),
                                          ![StockRef] = ReadCsv(fs[stock_path], "date")]
                  /\ pc' = "loaded"
                  /\ last' = Call("load_data", "", "", <<NewsRef, StockRef>>)
                  /\ ghost' = [ghost EXCEPT !.orig = heap']
    /\ UNCHANGED <<session, fs, self, invoked>>

\* The .dt accessor is there on a datetime column only.
HasDt(t) == t.cols["date"].dtype = "datetime64"

WithDtDate(t) == SetCol(t, "date", DtDate(t.cols["date"]))

\* align_dates assigns the news table first: when the stock table's column is
\* no datetime column the news table has already been changed.
align_dates ==
    /\ session = "prep"
    /\ pc = "loaded"
    /\ IF ~HasDt(heap[NewsRef])
       THEN /\ last' = Call("align_dates", "AttributeError", "", <<>>)
            /\ heap' = heap
       ELSE IF ~HasDt(heap[StockRef])
       THEN /\ last' = Call("align_dates", "AttributeError", "", <<>>)
            /\ heap' = [heap EXCEPT ![NewsRef] = WithDtDate(@)]
       ELSE /\ last' = Call("align_dates", "", "", <<NewsRef, StockRef>>)
            /\ heap' = [heap EXCEPT ![NewsRef] = WithDtDate(@), ![StockRef] = WithDtDate(@)]
    /\ UNCHANGED <<session, pc, fs, args, self, invoked, ghost>>

\* save_data(df, path).  ghost.saved keeps the table a file was written from
\* when that table is as load_data returned it.
save_data ==
    /\ session = "prep"
    /\ pc = "loaded"
    /\ \E ref \in Refs :
          /\ fs' = [fs EXCEPT ![OutPath(ref)] = ToCsv(heap[ref])]
          /\ ghost' = [ghost EXCEPT !.saved[OutPath(ref)] =
                          IF heap[ref] = ghost.orig[ref] THEN heap[ref] ELSE None]
          /\ last' = Call("save_data", "", OutPath(ref), <<>>)
    /\ UNCHANGED <<session, pc, heap, args, self, invoked>>

NextPrep ==
    \/ load_data
    \/ align_dates
    \/ save_data

SpecStock == InitStock /\ [][NextStock]_vars

SpecNews == InitNews /\ [][NextNews]_vars

SpecPrep == InitPrep /\ [][NextPrep]_vars

Init == InitNews \/ InitStock \/ InitPrep

Next == NextStock \/ NextNews \/ NextPrep

Spec == Init /\ [][Next]_vars

(* ------------------------------ claims ------------------------------- *)

ComputingMethods ==
    {"add_technical_indicators", "compute_daily_returns", "adjust_for_splits",
     "calculate_pynance_metrics"}

\* The columns each method of StockAnalysis computes.
Computes(m) ==
    CASE m = "add_technical_indicators" ->
            {"MA_20", "MA_50", "RSI", "MACD", "MACD_signal", "MACD_hist"}
      [] m = "compute_daily_returns" -> {"daily_return"}
      [] m = "adjust_for_splits" -> {"adjusted_close"}
      [] m = "calculate_pynance_metrics" -> {"volatility", "momentum"}

\* The table the constructor starts from, and its column names.
InputTable ==
    IF args.df # 0 THEN ghost.orig[args.df] ELSE ReadCsv(fs[args.file_path], "Date")

InputColumns == Columns(InputTable)

LoweredInputColumns == {LowerName(c) : c \in InputColumns}

\* C1 as stated: in a StockAnalysis session, for every input table, a computed
\* column is in the session table only if its method was invoked earlier in
\* the session.
C1_ComputedOnlyAfterInvoked ==
    StockReady =>
        \A m \in ComputingMethods : \A c \in Computes(m) :
            c \in Columns(SelfDf) => m \in invoked

\* C1 amended: a computed column is in the session table only if its method
\* was invoked earlier or the input table has a column whose lower-cased name
\* is that column's name (which no name with a capital letter is).
C1_ComputedOnlyAfterInvokedOrInput ==
    StockReady =>
        \A m \in ComputingMethods : \A c \in Computes(m) :
            c \in Columns(SelfDf) => (m \in invoked \/ c \in LoweredInputColumns)

C1_Witness ==
    /\ StockReady
    /\ "RSI" \in InputColumns
    /\ "RSI" \notin Columns(SelfDf)
    /\ "calculate_pynance_metrics" \in invoked
    /\ "volatility" \in Columns(SelfDf)
    /\ "volatility" \notin LoweredInputColumns

NumEq(x, y) == IsNum(x) /\ IsNum(y) /\ Num(x) * Den(y) = Num(y) * Den(x)

\* C6: adjust_for_splits never raises for want of split data: without a
\* 'stock splits' column adjusted_close is the close column; with one,
\* adjusted_close times the split is the close, a split of 0 counting as 1, and
\* no value is the infinity or NaN of a division by zero.
C6_AdjustForSplits ==
    (session = "stock" /\ last.op = "adjust_for_splits") =>
        /\ last.exc = ""
        /\ "adjusted_close" \in Columns(SelfDf)
        /\ IF "stock splits" \notin Columns(SelfDf)
           THEN SelfDf.cols["adjusted_close"] = SelfDf.cols["close"]
           ELSE \A i \in 1..NRows(SelfDf) :
                  LET adj == SelfDf.cols["adjusted_close"].v[i]
                      close == SelfDf.cols["close"].v[i]
                      split == SelfDf.cols["stock splits"].v[i]
                  IN /\ adj.k = "float"
                     /\ IF Num(split) = 0 THEN NumEq(adj, close)
                        ELSE NumEq(Mul(adj, split), close)

C6_Witness ==
    /\ session = "stock"
    /\ last.op = "adjust_for_splits"
    /\ "stock splits" \in Columns(SelfDf)
    /\ \E i, j \in 1..NRows(SelfDf) :
          /\ Num(SelfDf.cols["stock splits"].v[i]) = 0
          /\ Num(SelfDf.cols["stock splits"].v[j]) = 2
          /\ ~NumEq(SelfDf.cols["adjusted_close"].v[j], SelfDf.cols["close"].v[j])

\* C7: the constructor raises ValueError and creates no table when neither df
\* nor file_path is given; uses df when df is given, without reading
\* file_path even when that is given too; loads the file when only file_path
\* is given.
C7_Constructor ==
    (session = "stock" /\ pc # "start") =>
        /\ (args.df = 0 /\ args.file_path = "") =>
              /\ pc = "failed"
              /\ last = Call("__init__", "ValueError", "", <<>>)
              /\ self = None
              /\ heap = EmptyHeap
        /\ args.df # 0 =>
              /\ pc = "ready"
              /\ ghost.reads = {}
              /\ last.op = "__init__" =>
                    /\ last.out = "df"
                    /\ SelfDf \in NormaliseStock(ghost.orig[args.df], args.ticker)
        /\ (args.df = 0 /\ args.file_path # "") =>
              /\ ghost.reads = {args.file_path}
              /\ (pc = "ready" /\ last.op = "__init__") =>
                    /\ last.out = "file"
                    /\ SelfDf \in NormaliseStock(ReadCsv(fs[args.file_path], "Date"), args.ticker)

C7_Witness ==
    /\ session = "stock"
    /\ pc = "ready"
    /\ args.df # 0
    /\ args.file_path # ""
    /\ fs[args.file_path] # None

PlotsOfMetrics == {"plot_volatility", "plot_momentum"}

MetricOf(op) == IF op = "plot_volatility" THEN "volatility" ELSE "momentum"

\* What C8 says of one call of plot_volatility or plot_momentum: a chart when
\* the column is there, else the message; nothing raised; the table as it was.
PlotOfMetricStep ==
    (session = "stock" /\ pc = "ready" /\ last'.op \in PlotsOfMetrics) =>
        /\ last'.exc = ""
        /\ last'.out = (IF MetricOf(last'.op) \in Columns(SelfDf) THEN "chart" ELSE "message")
        /\ heap' = heap

\* C8 as stated: ... so in a session whose input table lacks the 'volatility'
\* and 'momentum' columns no such chart is rendered before
\* calculate_pynance_metrics has been invoked.
C8_NoMetricChartBeforeMetrics ==
    [][/\ PlotOfMetricStep
       /\ (/\ session = "stock"
           /\ last'.op \in PlotsOfMetrics
           /\ last'.out = "chart"
           /\ InputColumns \cap {"volatility", "momentum"} = {})
          => "calculate_pynance_metrics" \in invoked']_vars

\* C8 amended: ... in a session whose input table has no column named
\* volatility or momentum in any letter case (the constructor lower-cases the
\* names), no such chart is rendered before calculate_pynance_metrics has been
\* invoked.
C8_NoMetricChartBeforeMetricsAnyCase ==
    [][/\ PlotOfMetricStep
       /\ (/\ session = "stock"
           /\ last'.op \in PlotsOfMetrics
           /\ last'.out = "chart"
           /\ LoweredInputColumns \cap {"volatility", "momentum"} = {})
          => "calculate_pynance_metrics" \in invoked']_vars

C8_Witness ==
    /\ session = "stock"
    /\ last.op = "plot_volatility"
    /\ last.out = "chart"
    /\ LoweredInputColumns \cap {"volatility", "momentum"} = {}
    /\ "calculate_pynance_metrics" \in invoked

\* C9: once a StockAnalysis object is constructed, in every state any sequence
\* of its methods reaches, the table is in non-decreasing order of 'date' (NaT
\* last), its index is 0..n-1, every row's ticker is the constructor's, and
\* its rows are the input's rows, none added, none dropped.
C9_SortedIndexedTagged ==
    StockReady =>
        LET t == SelfDf
            input == LowerColumns(InputTable)
        IN /\ IsSortedBy(t.cols["date"])
           /\ t.index = RangeIndex(NRows(t))
           /\ self.ticker = args.ticker
           /\ \A i \in 1..NRows(t) : t.cols["ticker"].v[i] = Str(args.ticker)
           /\ NRows(t) = NRows(input)
           /\ \E p \in Perms(NRows(t)) :
                 \A c \in {"date", "close"} :
                    t.cols[c].v = [i \in 1..NRows(t) |-> input.cols[c].v[p[i]]]

C9_Witness ==
    /\ StockReady
    /\ ~IsSortedBy(LowerColumns(InputTable).cols["date"])
    /\ {"compute_daily_returns", "adjust_for_splits"} \subseteq invoked

\* C10: the DataFrame passed to the StockAnalysis or FinancialNewsEDA
\* constructor is never modified by the constructor or a later method, the
\* object changing its own copy only; align_dates changes the two tables it is
\* given and returns those same tables.
C10_Isolation ==
    /\ (session \in {"stock", "news"}) =>
          /\ heap[CallerRef] = ghost.orig[CallerRef]
          /\ (pc = "ready" /\ session = "news") => self.news_data # args.news_data
          /\ (pc = "ready" /\ session = "stock") => self.df # args.df
    /\ (session = "prep" /\ last.op = "align_dates" /\ last.exc = "") =>
          /\ last.ret = <<NewsRef, StockRef>>
          /\ \A r \in Refs :
                /\ heap[r] = WithDtDate(ghost.orig[r])
                /\ heap[r] # ghost.orig[r]

C10_Witness ==
    /\ session = "news"
    /\ pc = "ready"
    /\ "sentiment" \in Columns(NewsData)
    /\ NewsData.cols["date"] # heap[CallerRef].cols["date"]

AnalysisMethods ==
    {"add_technical_indicators", "compute_daily_returns", "adjust_for_splits",
     "calculate_pynance_metrics", "convert_dates", "headline_length_stats",
     "analyze_publisher_domains", "plot_publication_hour", "preprocess_text",
     "perform_lda", "sentiment_analysis"}

\* The columns each analysis method assigns.
Assigns(op) ==
    CASE op \in ComputingMethods -> Computes(op)
      [] op = "convert_dates" -> {"date", "date_only"}
      [] op = "headline_length_stats" -> {"headline_length"}
      [] op = "analyze_publisher_domains" -> {"publisher_domain"}
      [] op = "plot_publication_hour" -> {"hour"}
      [] op = "preprocess_text" -> {"clean_headline"}
      [] op = "perform_lda" -> {"dominant_topic"}
      [] op = "sentiment_analysis" -> {"sentiment"}

ObjectRef == IF session = "stock" THEN self.df ELSE self.news_data

MethodStep ==
    /\ session \in {"stock", "news"}
    /\ pc = "ready"
    /\ last'.op \in AnalysisMethods

TextOrNa(c) == isna(c) \/ c.k = "str"

\* C2: after sentiment_analysis on headlines that are text or missing, every
\* row has a sentiment value: 0 where the headline is missing, within [-1, 1]
\* where it is non-empty text; the row count is unchanged.
C2_SentimentScores ==
    (session = "news" /\ last.op = "sentiment_analysis") =>
        LET h == NewsData.cols["headline"].v
        IN (\A i \in 1..Len(h) : TextOrNa(h[i])) =>
              /\ last.exc = ""
              /\ "sentiment" \in Columns(NewsData)
              /\ NRows(NewsData) = NRows(ghost.orig[CallerRef])
              /\ Len(NewsData.cols["sentiment"].v) = NRows(NewsData)
              /\ \A i \in 1..Len(h) :
                    LET score == NewsData.cols["sentiment"].v[i]
                    IN /\ IsNum(score)
                       /\ isna(h[i]) => Num(score) = 0
                       /\ (h[i].k = "str" /\ CharsOf(h[i]) # <<>>) =>
                             /\ LessEq(IntC(-1), score)
                             /\ LessEq(score, IntC(1))

C2_Witness ==
    /\ session = "news"
    /\ last.op = "sentiment_analysis"
    /\ last.exc = ""
    /\ \E i, j \in 1..NRows(NewsData) :
          /\ isna(NewsData.cols["headline"].v[i])
          /\ NewsData.cols["sentiment"].v[i] = FloatC(0, 1)
          /\ NewsData.cols["headline"].v[j].k = "str"
          /\ NewsData.cols["sentiment"].v[j] = FloatC(1, 1)

\* Whether `new` is the calendar date of the timestamp `old`; a missing
\* timestamp stays missing.
IsDateOf(new, old) ==
    \/ old.k = "ts" /\ new = DateC(old.a)
    \/ isna(old) /\ isna(new)

\* Whether table `new` is table `old` with its 'date' column reduced to
\* calendar dates and nothing else changed.
DatesReduced(old, new) ==
    /\ new.index = old.index
    /\ Columns(new) = Columns(old)
    /\ \A c \in Columns(old) \ {"date"} : new.cols[c] = old.cols[c]
    /\ Len(new.cols["date"].v) = Len(old.cols["date"].v)
    /\ \A i \in 1..NRows(old) : IsDateOf(new.cols["date"].v[i], old.cols["date"].v[i])

AlignStep == session = "prep" /\ last'.op = "align_dates"

\* C3 as stated: for every pair of loaded tables, after align_dates every
\* 'date' value of both tables is the calendar date of the timestamp that was
\* there, rows and their order unchanged.
C3_AlignReducesDates ==
    [][AlignStep => \A r \in Refs : DatesReduced(heap[r], heap'[r])]_vars

\* C3 amended: for every pair of loaded tables whose 'date' columns were both
\* parsed as datetimes, ... as stated; when one was not (it holds a text that
\* is no date), align_dates raises AttributeError, leaving both tables as they
\* were, except that the news table is reduced when the stock table's column
\* is the only unparsed one.
C3_AlignReducesParsedDates ==
    [][AlignStep =>
          IF HasDt(heap[NewsRef]) /\ HasDt(heap[StockRef])
          THEN /\ last'.exc = ""
               /\ \A r \in Refs : DatesReduced(heap[r], heap'[r])
          ELSE /\ last'.exc = "AttributeError"
               /\ heap'[StockRef] = heap[StockRef]
               /\ IF HasDt(heap[NewsRef])
                  THEN DatesReduced(heap[NewsRef], heap'[NewsRef])
                  ELSE heap'[NewsRef] = heap[NewsRef]]_vars

C3_Witness ==
    /\ session = "prep"
    /\ last.op = "align_dates"
    /\ last.exc = ""
    /\ \E i \in 1..NRows(heap[NewsRef]) :
          /\ ghost.orig[NewsRef].cols["date"].v[i] = Ts(2, 10)
          /\ heap[NewsRef].cols["date"].v[i] = DateC(2)

====
